---- MODULE Spec2Model ----
(***************************************************************************)
(* State-machine model of the zero-downtime backup subsystem:              *)
(*   BackupManager    src/src/storage/backup/backup_manager.cpp            *)
(*   BackupShadowFile src/src/storage/backup/backup_shadow_file.cpp        *)
(*   BackupMetadata   src/unnamed/part_009 (writeToFile / readFromFile)    *)
(*                                                                         *)
(* Page contents are abstract: the bytes of live page p after v mutations  *)
(* are the pair <<p, v>>.  File sizes are counted in pages.  Every         *)
(* statement of the background thread that touches shared state (an        *)
(* atomic, a mutex-protected member, a file) is one step of the worker.    *)
(* A handler that holds BackupManager::mtx from its first to its last      *)
(* statement (startBackup, notifyPageModification) is one atomic action.   *)
(***************************************************************************)
EXTENDS Integers, Sequences, FiniteSets, TLC

\* ------------------------------------------------------------------ bounds
MaxPages == 2
MaxWrites == 1
LargePages == 101

\* ------------------------------------------------------- program constants
ProgressInterval == 100

Pages == 0 .. (MaxPages - 1)
Starters == {"s1", "s2"}
Waiters == {"w1", "w2"}
Writers == {"h1"}

NoFile == "nofile"
NoPage == 0 - 1
NoBytes == <<NoPage, 0>>
StaleBytes == <<NoPage, 1>>

MsgNone == ""
MsgCancelled == "Backup cancelled by user"
MsgVerifyFailed == "Backup verification failed"
MsgMetaMissing == "Backup metadata file not found"
MsgDataMissing == "Backup data file not found"
MsgSizeMismatch == "Backup file size mismatch"
MsgPageCountMismatch == "Metadata page count mismatch"
MsgMetaUnreadable == "Failed to read backup metadata"
MsgAlreadyActive == "Backup already in progress or not idle"
MsgNotPreserved == "Page not found in backup shadow file"
MsgIoError == "I/O error"

BackupState == {"IDLE", "IN_PROGRESS", "FINALIZING", "COMPLETED", "FAILED"}

VARIABLES
    \* BackupManager members
    state,            \* std::atomic<BackupState>
    progress,         \* std::atomic<double>, kept as the fraction <<num, den>>
    cancelRequested,  \* std::atomic<bool>
    errorMessage,     \* std::string
    copiedPages,      \* std::unordered_set<page_idx_t>
    metadata,         \* BackupMetadata (numPages, backupSizeBytes)
    threadJoinable,   \* backupThread && backupThread->joinable()
    joiner,           \* the waiter blocked in backupThread->join(), or "none"
    \* BackupShadowFile members
    shadowPages,      \* std::unordered_map<page_idx_t, bytes>
    \* background thread
    wpc,              \* position of backupThreadFunc
    pageIdx,          \* loop variable of copyMainDataFile
    totalPages,       \* local of copyMainDataFile
    pageBuffer,       \* local of copyMainDataFile
    hasPreserved,     \* result of backupShadowFile->hasPreservedPage(pageIdx)
    caught,           \* e.what() of the exception caught by backupThreadFunc
    \* file system
    live,             \* live data file: page -> number of mutations
    numLive,          \* dataFH->getNumPages()
    walFound,         \* what copyWALFile found at <databasePath>.wal ("none" before it ran)
    dirExists,        \* the backup directory exists
    dataFile,         \* backup data file: whether it exists, and its pages
    walFile,          \* backup WAL file: NoFile or the bytes copied
    lockFile,         \* backup copy of <db>.lock: NoFile or present
    manifest,         \* backup_metadata.bin: whether it exists, and the record in it
    \* callers
    startResult,      \* per startBackup caller: what the call returned
    waitPc,           \* per waitForCompletion caller
    writerPc,         \* per host writer: "idle" or "notified"
    writerPage,       \* the page the writer notified
    writerState,      \* the backup state the writer's notification ran in
    writerFound,      \* the writer's notification found its page in copiedPages
    writes,           \* mutations done so far
    \* history
    snapshot,         \* live page contents at the successful startBackup
    written,          \* pages the copier has written to the backup data file
    cancelInCopy,     \* cancelBackup() ran while the worker was in copyMainDataFile
    cleanedUp,        \* BackupShadowFile::cleanup() ran in the background thread
    firstPreserved,   \* per page, the bytes of the first preserveOriginalPage that took effect
    contractOK,       \* every mutation since startBackup followed a notification made since startBackup
    manifestAtStart,  \* backup_metadata.bin existed when the successful startBackup ran
    cancelAfterEnd,   \* cancelBackup() ran with the state COMPLETED or FAILED
    \* restoreFromBackup
    target,           \* the target directory: whether it exists, and its files
    rpc,              \* per restoreFromBackup call: its position, then its outcome
    targetBefore,     \* per call: the target directory when the call began
    manifestBefore,   \* per call: backup_metadata.bin existed when the call began
    \* BackupManager::mtx
    mtx,              \* "free", or the thread that holds the mutex
    lpc,              \* per host thread: its position with respect to the mutex
    \* DatabaseConnectorFactory / BoltDatabaseConnector
    dbPath,           \* the path or URL given to createConnector, a sequence of characters
    connType,         \* what detectConnectionType returned ("none" before the call)
    useTLS,           \* BoltConnectionInfo::useTLS
    boltInitialized,  \* g_bolt_connector_test_initialized
    cpc               \* position of the database open: idle, connector, nullptr, invalid, ...

vars == <<state, progress, cancelRequested, errorMessage, copiedPages, metadata,
          threadJoinable, joiner, shadowPages, wpc, pageIdx, totalPages, pageBuffer,
          hasPreserved, caught,
          live, numLive, walFound, dirExists, dataFile, walFile, lockFile, manifest,
          startResult, waitPc, writerPc, writerPage, writerState, writerFound, writes,
          snapshot, written, cancelInCopy, cleanedUp, firstPreserved, contractOK,
          manifestAtStart, cancelAfterEnd, target, rpc, targetBefore, manifestBefore,
          mtx, lpc, dbPath, connType, useTLS, boltInitialized, cpc>>

managerVars == <<state, progress, cancelRequested, errorMessage, copiedPages, metadata>>
threadVars == <<threadJoinable, joiner>>
workerVars == <<wpc, pageIdx, totalPages, pageBuffer, hasPreserved, caught>>
sourceVars == <<live, numLive, walFound>>
backupDirVars == <<dirExists, dataFile, walFile, lockFile, manifest>>
callerVars == <<startResult, waitPc>>
writerVars == <<writerPc, writerPage, writerState, writerFound, writes>>
historyVars == <<snapshot, written, cancelInCopy, cleanedUp, firstPreserved, contractOK,
                manifestAtStart, cancelAfterEnd>>
restoreVars == <<target, rpc, targetBefore, manifestBefore>>
lockVars == <<mtx, lpc>>
connVars == <<dbPath, connType, useTLS, boltInitialized, cpc>>

\* ----------------------------------------------------------------- helpers

\* The bytes of live page p.
LiveBytes(p) == <<p, IF p \in Pages THEN live[p] ELSE 0>>

\* Fractions <<num, den>> with den > 0.
ProgressZero == <<0, 1>>
ProgressLeq(a, b) == a[1] * b[2] <= b[1] * a[2]
ProgressIsOne(a) == a[1] = a[2]

\* A previous backup left in the destination directory: a data file of
\* MaxPages pages and its manifest.
NoData == [exists |-> FALSE, pages |-> << >>]
NoManifest ==
    [exists |-> FALSE, numPages |-> 0, backupSizeBytes |-> 0, stale |-> FALSE,
     readable |-> FALSE]
StaleData == [exists |-> TRUE, pages |-> [i \in 1 .. MaxPages |-> StaleBytes]]
StaleManifest == [exists |-> TRUE, numPages |-> MaxPages, backupSizeBytes |-> MaxPages,
                  stale |-> TRUE, readable |-> TRUE]

\* Mutant: the page is appended at the end of the file whatever the offset.
WriteAt_Append(f, i, bytes) == [f EXCEPT !.pages = Append(@, bytes)]

\* vfs->writeFile(file, buf, size, pageIdx * pageSize): the file after one
\* page is written at page offset i (files are written from offset 0 on, so
\* the offset is never beyond the end of the file).
WriteAt(f, i, bytes) ==
    [f EXCEPT !.pages = IF i + 1 <= Len(@) THEN [@ EXCEPT ![i + 1] = bytes]
                        ELSE Append(@, bytes)]

\* vfs->openFile(path, WRITE | CREATE_IF_NOT_EXISTS): an existing file is kept.
OpenCreate(f) == [f EXCEPT !.exists = TRUE]

\* ---------------------------------------------------------- BackupManager

\* The double currentPage / total, as a fraction in lowest terms.
RECURSIVE Gcd(_, _)
Gcd(a, b) == IF b = 0 THEN a ELSE Gcd(b, a % b)
Fraction(n, d) == <<n \div Gcd(n, d), d \div Gcd(n, d)>>

\* Mutant: the fraction of pages still to copy.
updateProgress_Remaining(currentPage, total) ==
    IF total = 0 THEN ProgressZero ELSE Fraction(total - currentPage, total)

\* BackupManager::updateProgress: the value stored into progress.
updateProgress(currentPage, total) ==
    IF total = 0 THEN ProgressZero ELSE Fraction(currentPage, total)

TypeOK ==
    /\ state \in BackupState
    /\ cancelRequested \in BOOLEAN
    /\ copiedPages \subseteq Pages \cup (0 .. (numLive - 1))
    /\ pageIdx \in 0 .. numLive
    /\ DOMAIN shadowPages \subseteq Pages
    /\ numLive \in (0 .. MaxPages) \cup {LargePages}
    /\ writes \in 0 .. MaxWrites

\* The state after BackupManager's constructor, for a database of n pages
\* and a destination that does not exist ("absent"), is an empty directory
\* ("empty"), holds an earlier backup ("stale") or holds the data file of
\* an earlier backup that wrote no manifest ("partial").
InitWith(n, dest) ==
    /\ state = "IDLE"
    /\ progress = ProgressZero
    /\ cancelRequested = FALSE
    /\ errorMessage = MsgNone
    /\ copiedPages = {}
    /\ metadata = [numPages |-> 0, backupSizeBytes |-> 0]
    /\ threadJoinable = FALSE
    /\ joiner = "none"
    /\ shadowPages = << >>
    /\ wpc = "none"
    /\ pageIdx = 0
    /\ totalPages = 0
    /\ pageBuffer = NoBytes
    /\ hasPreserved = FALSE
    /\ caught = MsgNone
    /\ live = [p \in Pages |-> 0]
    /\ numLive = n
    /\ walFound = "none"
    /\ dirExists = (dest # "absent")
    /\ dataFile = IF dest \in {"stale", "partial"} THEN StaleData ELSE NoData
    /\ manifest = IF dest = "stale" THEN StaleManifest ELSE NoManifest
    /\ walFile = NoFile
    /\ lockFile = NoFile
    /\ startResult = [s \in Starters |-> "none"]
    /\ mtx = "free"
    /\ lpc = [t \in Starters \cup Writers |-> "idle"]
    /\ dbPath = << >>
    /\ connType = "none"
    /\ useTLS = FALSE
    /\ boltInitialized = FALSE
    /\ cpc = "idle"
    /\ waitPc = [w \in Waiters |-> "idle"]
    /\ writerPc = [h \in Writers |-> "idle"]
    /\ writerPage = [h \in Writers |-> NoPage]
    /\ writerState = [h \in Writers |-> "IDLE"]
    /\ writerFound = [h \in Writers |-> FALSE]
    /\ writes = 0
    /\ snapshot = << >>
    /\ written = {}
    /\ cancelInCopy = FALSE
    /\ cleanedUp = FALSE
    /\ firstPreserved = << >>
    /\ contractOK = TRUE
    /\ manifestAtStart = FALSE
    /\ cancelAfterEnd = FALSE

Destinations == {"absent", "empty", "stale", "partial"}

\* The restore target: a path that does not exist ("absent"), an empty
\* directory ("empty") or a directory holding a database ("used").
Restorers == {"r1", "r2"}
OldBytes == <<NoPage, 2>>
NoTarget == [exists |-> FALSE, data |-> NoData, wal |-> NoFile]
EmptyTarget == [exists |-> TRUE, data |-> NoData, wal |-> NoFile]
UsedTarget ==
    [exists |-> TRUE,
     data |-> [exists |-> TRUE, pages |-> [i \in 1 .. (MaxPages + 1) |-> OldBytes]],
     wal |-> "old"]
Targets == {"absent", "empty", "used"}

InitTarget(tgt) ==
    /\ target = IF tgt = "absent" THEN NoTarget
                ELSE IF tgt = "empty" THEN EmptyTarget ELSE UsedTarget
    /\ rpc = [r \in Restorers |-> "idle"]
    /\ targetBefore = [r \in Restorers |-> NoTarget]
    /\ manifestBefore = [r \in Restorers |-> FALSE]

Init == \E n \in 0 .. MaxPages, dest \in Destinations : InitWith(n, dest) /\ InitTarget("empty")

\* Mutant: the check rejects a start only while a backup is running.
startRejected_WhileRunning == state \in {"IN_PROGRESS", "FINALIZING"}

\* BackupManager::startBackup: if (state.load() != BackupState::IDLE) throw
startRejected == state # "IDLE"

\* Mutant: the state is set to IN_PROGRESS before the directory is created.
startBackup_StateFirst(s, createOk) ==
    /\ startResult[s] = "none"
    /\ ~startRejected
    /\ ~dirExists /\ ~createOk
    /\ startResult' = [startResult EXCEPT ![s] = "IoError"]
    /\ state' = "IN_PROGRESS"
    /\ UNCHANGED <<progress, cancelRequested, errorMessage, copiedPages, metadata,
                   threadVars, shadowPages, workerVars, sourceVars, backupDirVars, waitPc,
                   writerVars, historyVars, restoreVars, lockVars, connVars>>

\* BackupManager::startBackup, the whole body under lock_guard(mtx).
\* createOk: whether fileSystem->createDir succeeds when it is called.
startBackup(s, createOk) ==
    /\ startResult[s] = "none"
    /\ IF startRejected
       THEN /\ startResult' = [startResult EXCEPT ![s] = "AlreadyActive"]
            /\ UNCHANGED <<managerVars, threadVars, shadowPages, workerVars,
                           sourceVars, backupDirVars, waitPc, writerVars, historyVars, restoreVars, lockVars, connVars>>
       ELSE IF ~dirExists /\ ~createOk
       THEN \* createDir throws after the four members were reset
            /\ startResult' = [startResult EXCEPT ![s] = "IoError"]
            /\ cancelRequested' = FALSE
            /\ progress' = ProgressZero
            /\ errorMessage' = MsgNone
            /\ UNCHANGED <<state, copiedPages, metadata, threadVars, shadowPages,
                           workerVars, sourceVars, backupDirVars, waitPc, writerVars,
                           historyVars, restoreVars, lockVars, connVars>>
       ELSE /\ startResult' = [startResult EXCEPT ![s] = "ok"]
            /\ cancelRequested' = FALSE
            /\ progress' = ProgressZero
            /\ errorMessage' = MsgNone
            /\ dirExists' = TRUE
            /\ metadata' = [numPages |-> 0, backupSizeBytes |-> 0]
            /\ shadowPages' = << >>
            /\ copiedPages' = {}
            /\ state' = "IN_PROGRESS"
            /\ threadJoinable' = TRUE
            /\ wpc' = "copy_open"
            /\ snapshot' = [p \in 0 .. (numLive - 1) |-> LiveBytes(p)]
            /\ UNCHANGED <<joiner, pageIdx, totalPages, pageBuffer, hasPreserved, caught, sourceVars,
                           dataFile, walFile, lockFile, manifest, waitPc, writerVars,
                           written, cancelInCopy, cleanedUp, firstPreserved, contractOK, cancelAfterEnd, restoreVars, lockVars, connVars>>
            /\ manifestAtStart' = manifest.exists

\* Mutant: cancelling marks the backup failed at once.
cancelBackup_SetsFailed ==
    /\ cancelRequested' = TRUE
    /\ state' = IF state = "IDLE" THEN state ELSE "FAILED"
    /\ cancelInCopy' = (cancelInCopy \/ wpc \in {"copy_open", "loop", "has", "read", "write",
                                                  "mark", "progress", "copy_finish"})
    /\ cancelAfterEnd' = (cancelAfterEnd \/ state \in {"COMPLETED", "FAILED"})
    /\ UNCHANGED <<progress, errorMessage, copiedPages, metadata, threadVars,
                   shadowPages, workerVars, sourceVars, backupDirVars, callerVars,
                   writerVars, snapshot, written, cleanedUp, firstPreserved, contractOK,
                   manifestAtStart, restoreVars, lockVars, connVars>>

\* BackupManager::cancelBackup
cancelBackup ==
    /\ cancelRequested' = TRUE
    /\ cancelInCopy' = (cancelInCopy \/ wpc \in {"copy_open", "loop", "has", "read", "write",
                                                  "mark", "progress", "copy_finish"})
    /\ cancelAfterEnd' = (cancelAfterEnd \/ state \in {"COMPLETED", "FAILED"})
    /\ UNCHANGED <<state, progress, errorMessage, copiedPages, metadata, threadVars,
                   shadowPages, workerVars, sourceVars, backupDirVars, callerVars,
                   writerVars, snapshot, written, cleanedUp, firstPreserved, contractOK,
                   manifestAtStart, restoreVars, lockVars, connVars>>

\* Mutant: the page is marked whatever the state is.
notifyCopiedPages_Always(p) == copiedPages \cup {p}

\* Mutant: a page found in copiedPages is taken out of it.
notifyCopiedPages_Toggle(p) ==
    IF state # "IN_PROGRESS" THEN copiedPages
    ELSE IF p \notin copiedPages THEN copiedPages \cup {p}
    ELSE copiedPages \ {p}

\* BackupManager::notifyPageModification, the whole body under lock_guard(mtx):
\* the set of copied pages after the call.  No page bytes are read and the
\* shadow file is not called.
notifyCopiedPages(p) ==
    IF state # "IN_PROGRESS" THEN copiedPages
    ELSE IF p \notin copiedPages THEN copiedPages \cup {p}
    ELSE copiedPages

notifyPageModification(h, p) ==
    /\ writerPc[h] = "idle"
    /\ writes < MaxWrites
    /\ p < numLive
    /\ copiedPages' = notifyCopiedPages(p)
    /\ writerPc' = [writerPc EXCEPT ![h] = "notified"]
    /\ writerPage' = [writerPage EXCEPT ![h] = p]
    /\ writerState' = [writerState EXCEPT ![h] = state]
    /\ writerFound' = [writerFound EXCEPT ![h] = (p \in copiedPages)]
    /\ UNCHANGED <<state, progress, cancelRequested, errorMessage, metadata, threadVars,
                   shadowPages, workerVars, sourceVars, backupDirVars, callerVars,
                   writes, historyVars, restoreVars, lockVars, connVars>>

\* The host writer changes the bytes of the page it notified (the writer
\* contract of the page-write path: notify, let it return, then mutate).
mutatePage(h) ==
    /\ writerPc[h] = "notified"
    /\ live' = [live EXCEPT ![writerPage[h]] = @ + 1]
    /\ writes' = writes + 1
    /\ writerPc' = [writerPc EXCEPT ![h] = "idle"]
    /\ contractOK' = (contractOK /\ ~(writerState[h] = "IDLE" /\ state # "IDLE"))
    /\ writerPage' = [writerPage EXCEPT ![h] = NoPage]
    /\ writerState' = [writerState EXCEPT ![h] = "IDLE"]
    /\ writerFound' = [writerFound EXCEPT ![h] = FALSE]
    /\ UNCHANGED <<managerVars, threadVars, shadowPages, workerVars, numLive, walFound,
                   backupDirVars, callerVars, snapshot, written, cancelInCopy, cleanedUp,
                   firstPreserved, manifestAtStart, cancelAfterEnd, restoreVars, lockVars, connVars>>


\* ------------------------------------------------------ background thread

\* A statement of the try block throws: control goes to the catch clause
\* of backupThreadFunc with e.what() = msg.
Throw(msg) ==
    /\ wpc' = "catch"
    /\ caught' = msg

CopyStage == {"copy_open", "loop", "has", "read", "write", "mark", "progress", "copy_finish"}

\* copyMainDataFile: page count, metadata.numPages, open of the backup data file.
CopyOpen(ioOk) ==
    /\ wpc = "copy_open"
    /\ totalPages' = numLive
    /\ metadata' = [metadata EXCEPT !.numPages = numLive]
    /\ IF ioOk
       THEN /\ dataFile' = OpenCreate(dataFile)
            /\ wpc' = "loop"
            /\ pageIdx' = 0
            /\ UNCHANGED caught
       ELSE /\ Throw(MsgIoError)
            /\ UNCHANGED <<dataFile, pageIdx>>
    /\ UNCHANGED <<state, progress, cancelRequested, errorMessage, copiedPages, threadVars,
                   shadowPages, pageBuffer, hasPreserved, sourceVars, dirExists, walFile,
                   lockFile, manifest, callerVars, writerVars, historyVars, restoreVars, lockVars, connVars>>

\* copyMainDataFile: the loop condition and the cancellation check.
CopyLoopCheck ==
    /\ wpc = "loop"
    /\ wpc' = IF pageIdx < totalPages
              THEN (IF cancelRequested THEN "check_cancel1" ELSE "has")
              ELSE "copy_finish"
    /\ UNCHANGED <<managerVars, threadVars, shadowPages, pageIdx, totalPages, pageBuffer,
                   hasPreserved, caught, sourceVars, backupDirVars, callerVars, writerVars,
                   historyVars, restoreVars, lockVars, connVars>>

\* Mutant: every page is reported as preserved.
hasPreservedPage_Always(p) == p = p

\* BackupShadowFile::hasPreservedPage
hasPreservedPage(p) == p \in DOMAIN shadowPages

\* copyMainDataFile: backupShadowFile->hasPreservedPage(pageIdx)
CopyHasPreserved ==
    /\ wpc = "has"
    /\ hasPreserved' = hasPreservedPage(pageIdx)
    /\ wpc' = "read"
    /\ UNCHANGED <<managerVars, threadVars, shadowPages, pageIdx, totalPages, pageBuffer,
                   caught, sourceVars, backupDirVars, callerVars, writerVars, historyVars, restoreVars, lockVars, connVars>>

\* copyMainDataFile: the page is read from the shadow file when the check
\* found it there (BackupShadowFile::readPreservedPage throws when it is
\* gone), and from the live data file otherwise.
CopyReadPage(ioOk) ==
    /\ wpc = "read"
    /\ IF hasPreserved
       THEN IF pageIdx \in DOMAIN shadowPages
            THEN /\ pageBuffer' = shadowPages[pageIdx]
                 /\ wpc' = "write"
                 /\ UNCHANGED caught
            ELSE /\ Throw(MsgNotPreserved)
                 /\ UNCHANGED pageBuffer
       ELSE IF ioOk
            THEN /\ pageBuffer' = LiveBytes(pageIdx)
                 /\ wpc' = "write"
                 /\ UNCHANGED caught
            ELSE /\ Throw(MsgIoError)
                 /\ UNCHANGED pageBuffer
    /\ UNCHANGED <<managerVars, threadVars, shadowPages, pageIdx, totalPages, hasPreserved,
                   sourceVars, backupDirVars, callerVars, writerVars, historyVars, restoreVars, lockVars, connVars>>

\* copyMainDataFile: vfs->writeFile at pageIdx * pageSize.
CopyWritePage(ioOk) ==
    /\ wpc = "write"
    /\ IF ioOk
       THEN /\ dataFile' = WriteAt(dataFile, pageIdx, pageBuffer)
            /\ written' = written \cup {pageIdx}
            /\ wpc' = "mark"
            /\ UNCHANGED caught
       ELSE /\ Throw(MsgIoError)
            /\ UNCHANGED <<dataFile, written>>
    /\ UNCHANGED <<managerVars, threadVars, shadowPages, pageIdx, totalPages, pageBuffer,
                   hasPreserved, sourceVars, dirExists, walFile, lockFile, manifest,
                   callerVars, writerVars, snapshot, cancelInCopy, cleanedUp, firstPreserved,
                   contractOK,
                   manifestAtStart, cancelAfterEnd, restoreVars, lockVars, connVars>>

\* copyMainDataFile: copiedPages.insert(pageIdx) under mtx.
CopyMarkCopied ==
    /\ wpc = "mark"
    /\ copiedPages' = copiedPages \cup {pageIdx}
    /\ wpc' = "progress"
    /\ UNCHANGED <<state, progress, cancelRequested, errorMessage, metadata, threadVars,
                   shadowPages, pageIdx, totalPages, pageBuffer, hasPreserved, caught,
                   sourceVars, backupDirVars, callerVars, writerVars, historyVars, restoreVars, lockVars, connVars>>

\* copyMainDataFile: the progress update every ProgressInterval pages, and pageIdx++.
CopyUpdateProgress ==
    /\ wpc = "progress"
    /\ progress' = IF pageIdx % ProgressInterval = 0
                   THEN updateProgress(pageIdx, totalPages)
                   ELSE progress
    /\ pageIdx' = pageIdx + 1
    /\ wpc' = "loop"
    /\ UNCHANGED <<state, cancelRequested, errorMessage, copiedPages, metadata, threadVars,
                   shadowPages, totalPages, pageBuffer, hasPreserved, caught, sourceVars,
                   backupDirVars, callerVars, writerVars, historyVars, restoreVars, lockVars, connVars>>

\* copyMainDataFile: the final progress update, metadata.backupSizeBytes, close.
CopyFinish ==
    /\ wpc = "copy_finish"
    /\ progress' = updateProgress(totalPages, totalPages)
    /\ metadata' = [metadata EXCEPT !.backupSizeBytes = totalPages]
    /\ wpc' = "check_cancel1"
    /\ UNCHANGED <<state, cancelRequested, errorMessage, copiedPages, threadVars,
                   shadowPages, pageIdx, totalPages, pageBuffer, hasPreserved, caught,
                   sourceVars, backupDirVars, callerVars, writerVars, historyVars, restoreVars, lockVars, connVars>>

\* Mutant: the flag is not looked at between the stages.
CheckCancel_Ignored(at, next) ==
    /\ wpc = at
    /\ wpc' = next
    /\ UNCHANGED <<managerVars, threadVars, shadowPages, pageIdx, totalPages, pageBuffer,
                   hasPreserved, caught, sourceVars, backupDirVars, callerVars, writerVars,
                   historyVars, restoreVars, lockVars, connVars>>

\* backupThreadFunc: if (cancelRequested.load()) { setState(FAILED); ...
\* after copyMainDataFile and after copyWALFile.
CheckCancel(at, next) ==
    /\ wpc = at
    /\ IF cancelRequested
       THEN /\ state' = "FAILED"
            /\ wpc' = "cancel_msg"
       ELSE /\ wpc' = next
            /\ UNCHANGED state
    /\ UNCHANGED <<progress, cancelRequested, errorMessage, copiedPages, metadata,
                   threadVars, shadowPages, pageIdx, totalPages, pageBuffer, hasPreserved,
                   caught, sourceVars, backupDirVars, callerVars, writerVars, historyVars, restoreVars, lockVars, connVars>>

CheckCancelAfterCopy == CheckCancel("check_cancel1", "wal")
CheckCancelAfterWAL == CheckCancel("check_cancel2", "aux")

\* backupThreadFunc: errorMessage = "Backup cancelled by user"; return;
CancelMessage ==
    /\ wpc = "cancel_msg"
    /\ errorMessage' = MsgCancelled
    /\ wpc' = "done"
    /\ UNCHANGED <<state, progress, cancelRequested, copiedPages, metadata, threadVars,
                   shadowPages, pageIdx, totalPages, pageBuffer, hasPreserved, caught,
                   sourceVars, backupDirVars, callerVars, writerVars, historyVars, restoreVars, lockVars, connVars>>

WalBytes == "W"

\* Mutant: a WAL file of zero length is copied like any other.
copyWALFile_CopiesEmpty(wal, ioOk) ==
    /\ wpc = "wal"
    /\ walFound' = wal
    /\ IF wal = "absent"
       THEN /\ wpc' = "check_cancel2"
            /\ UNCHANGED <<walFile, caught>>
       ELSE IF ioOk
       THEN /\ walFile' = (IF wal = "data" THEN WalBytes ELSE "")
            /\ wpc' = "check_cancel2"
            /\ UNCHANGED caught
       ELSE /\ Throw(MsgIoError)
            /\ UNCHANGED walFile
    /\ UNCHANGED <<managerVars, threadVars, shadowPages, pageIdx, totalPages, pageBuffer,
                   hasPreserved, live, numLive, dirExists, dataFile, lockFile, manifest,
                   callerVars, writerVars, historyVars, restoreVars, lockVars, connVars>>

\* BackupManager::copyWALFile.  wal: what is found at <databasePath>.wal
\* (no file, a file of zero length, a file with bytes).  ioOk: whether the
\* opens, the read and the write of the call succeed.
copyWALFile(wal, ioOk) ==
    /\ wpc = "wal"
    /\ walFound' = wal
    /\ IF wal = "absent"
       THEN /\ wpc' = "check_cancel2"
            /\ UNCHANGED <<walFile, caught>>
       ELSE IF ~ioOk
       THEN /\ Throw(MsgIoError)
            /\ UNCHANGED walFile
       ELSE IF wal = "empty"
       THEN /\ wpc' = "check_cancel2"
            /\ UNCHANGED <<walFile, caught>>
       ELSE /\ walFile' = WalBytes
            /\ wpc' = "check_cancel2"
            /\ UNCHANGED caught
    /\ UNCHANGED <<managerVars, threadVars, shadowPages, pageIdx, totalPages, pageBuffer,
                   hasPreserved, live, numLive, dirExists, dataFile, lockFile, manifest,
                   callerVars, writerVars, historyVars, restoreVars, lockVars, connVars>>

\* BackupManager::copyMetadata.  lock: whether <databasePath>.lock exists
\* and is not empty.
copyMetadata(lock, ioOk) ==
    /\ wpc = "aux"
    /\ IF lock
       THEN IF ioOk
            THEN /\ lockFile' = "lock"
                 /\ wpc' = "finalizing"
                 /\ UNCHANGED caught
            ELSE /\ Throw(MsgIoError)
                 /\ UNCHANGED lockFile
       ELSE /\ wpc' = "finalizing"
            /\ UNCHANGED <<lockFile, caught>>
    /\ UNCHANGED <<managerVars, threadVars, shadowPages, pageIdx, totalPages, pageBuffer,
                   hasPreserved, sourceVars, dirExists, dataFile, walFile, manifest,
                   callerVars, writerVars, historyVars, restoreVars, lockVars, connVars>>

\* backupThreadFunc: setState(BackupState::FINALIZING)
SetFinalizing ==
    /\ wpc = "finalizing"
    /\ state' = "FINALIZING"
    /\ wpc' = "write_meta"
    /\ UNCHANGED <<progress, cancelRequested, errorMessage, copiedPages, metadata,
                   threadVars, shadowPages, pageIdx, totalPages, pageBuffer, hasPreserved,
                   caught, sourceVars, backupDirVars, callerVars, writerVars, historyVars, restoreVars, lockVars, connVars>>

\* BackupMetadata::writeToFile: the file it leaves at backup_metadata.bin.
writeToFile(md) ==
    [exists |-> TRUE, numPages |-> md.numPages, backupSizeBytes |-> md.backupSizeBytes,
     stale |-> FALSE, readable |-> TRUE]

\* Mutant: the manifest is written right after the data pages, before the
\* WAL and the auxiliary file are copied.
writeBackupMetadata_Early(ioOk, intact) ==
    /\ wpc = "check_cancel1"
    /\ ioOk
    /\ manifest' = [writeToFile(metadata) EXCEPT !.readable = intact]
    /\ wpc' = "wal"
    /\ UNCHANGED <<managerVars, threadVars, shadowPages, pageIdx, totalPages, pageBuffer,
                   hasPreserved, caught, sourceVars, dirExists, dataFile, walFile, lockFile,
                   callerVars, writerVars, historyVars, restoreVars, lockVars, connVars>>

\* BackupManager::writeBackupMetadata.  ioOk: whether openFile and writeFile
\* return; intact: whether the bytes that reach the file are the record
\* (BackupMetadata::readFromFile returns for an intact file only).
writeBackupMetadata(ioOk, intact) ==
    /\ wpc = "write_meta"
    /\ IF ioOk
       THEN /\ manifest' = [writeToFile(metadata) EXCEPT !.readable = intact]
            /\ wpc' = "verify"
            /\ UNCHANGED caught
       ELSE /\ Throw(MsgIoError)
            /\ UNCHANGED manifest
    /\ UNCHANGED <<managerVars, threadVars, shadowPages, pageIdx, totalPages, pageBuffer,
                   hasPreserved, sourceVars, dirExists, dataFile, walFile, lockFile,
                   callerVars, writerVars, historyVars, restoreVars, lockVars, connVars>>

\* BackupManager::verifyBackupIntegrity: the message it leaves in
\* errorMessage, MsgNone when it returns true.  readOk: whether
\* BackupMetadata::readFromFile returns (the file is intact).
\* Mutant: no verification; every backup is reported intact.
VerifyMessage_Skip(readOk) == MsgNone

VerifyMessage(readOk) ==
    IF ~manifest.exists THEN MsgMetaMissing
    ELSE IF ~dataFile.exists THEN MsgDataMissing
    ELSE IF Len(dataFile.pages) # metadata.numPages THEN MsgSizeMismatch
    ELSE IF ~readOk THEN MsgMetaUnreadable
    ELSE IF manifest.numPages # metadata.numPages THEN MsgPageCountMismatch
    ELSE MsgNone

\* ioOk: whether opening the backup data file and reading its size succeed;
\* their exception is not caught inside verifyBackupIntegrity.
verifyBackupIntegrity(ioOk) ==
    /\ wpc = "verify"
    /\ IF manifest.exists /\ dataFile.exists /\ ~ioOk
       THEN /\ Throw(MsgIoError)
            /\ UNCHANGED errorMessage
       ELSE /\ errorMessage' = IF VerifyMessage(manifest.readable) = MsgNone
                               THEN errorMessage
                               ELSE VerifyMessage(manifest.readable)
            /\ wpc' = IF VerifyMessage(manifest.readable) = MsgNone THEN "set_completed"
                      ELSE "set_failed"
            /\ UNCHANGED caught
    /\ UNCHANGED <<state, progress, cancelRequested, copiedPages, metadata, threadVars,
                   shadowPages, pageIdx, totalPages, pageBuffer, hasPreserved,
                   sourceVars, backupDirVars, callerVars, writerVars, historyVars, restoreVars, lockVars, connVars>>

\* backupThreadFunc: setState(BackupState::COMPLETED)
SetCompleted ==
    /\ wpc = "set_completed"
    /\ state' = "COMPLETED"
    /\ wpc' = "cleanup"
    /\ UNCHANGED <<progress, cancelRequested, errorMessage, copiedPages, metadata,
                   threadVars, shadowPages, pageIdx, totalPages, pageBuffer, hasPreserved,
                   caught, sourceVars, backupDirVars, callerVars, writerVars, historyVars, restoreVars, lockVars, connVars>>

\* backupThreadFunc: setState(BackupState::FAILED) after a failed verification
SetVerifyFailed ==
    /\ wpc = "set_failed"
    /\ state' = "FAILED"
    /\ wpc' = "verify_msg"
    /\ UNCHANGED <<progress, cancelRequested, errorMessage, copiedPages, metadata,
                   threadVars, shadowPages, pageIdx, totalPages, pageBuffer, hasPreserved,
                   caught, sourceVars, backupDirVars, callerVars, writerVars, historyVars, restoreVars, lockVars, connVars>>

\* backupThreadFunc: errorMessage = "Backup verification failed"
VerifyFailedMessage ==
    /\ wpc = "verify_msg"
    /\ errorMessage' = MsgVerifyFailed
    /\ wpc' = "cleanup"
    /\ UNCHANGED <<state, progress, cancelRequested, copiedPages, metadata, threadVars,
                   shadowPages, pageIdx, totalPages, pageBuffer, hasPreserved, caught,
                   sourceVars, backupDirVars, callerVars, writerVars, historyVars, restoreVars, lockVars, connVars>>

\* BackupShadowFile::cleanup
cleanup == << >>

\* backupThreadFunc: backupShadowFile->cleanup() at the end of the try block
CleanupShadow ==
    /\ wpc = "cleanup"
    /\ shadowPages' = cleanup
    /\ cleanedUp' = TRUE
    /\ firstPreserved' = << >>
    /\ wpc' = "done"
    /\ UNCHANGED <<managerVars, threadVars, pageIdx, totalPages, pageBuffer, hasPreserved,
                   caught, sourceVars, backupDirVars, callerVars, writerVars, snapshot,
                   written, cancelInCopy, contractOK,
                   manifestAtStart, cancelAfterEnd, restoreVars, lockVars, connVars>>

\* Mutant: the handler does not record the reason.
HandleErrorMessage_Dropped ==
    /\ wpc = "catch"
    /\ wpc' = "catch_state"
    /\ UNCHANGED <<managerVars, threadVars, shadowPages, pageIdx, totalPages, pageBuffer,
                   hasPreserved, caught, sourceVars, backupDirVars, callerVars, writerVars,
                   historyVars, restoreVars, lockVars, connVars>>

\* BackupManager::handleBackupError: errorMessage = errorMsg
HandleErrorMessage ==
    /\ wpc = "catch"
    /\ errorMessage' = caught
    /\ wpc' = "catch_state"
    /\ UNCHANGED <<state, progress, cancelRequested, copiedPages, metadata, threadVars,
                   shadowPages, pageIdx, totalPages, pageBuffer, hasPreserved, caught,
                   sourceVars, backupDirVars, callerVars, writerVars, historyVars, restoreVars, lockVars, connVars>>

\* Mutant: the error handler makes the manager startable again.
HandleErrorState_Idle ==
    /\ wpc = "catch_state"
    /\ state' = "IDLE"
    /\ wpc' = "cleanup"
    /\ UNCHANGED <<progress, cancelRequested, errorMessage, copiedPages, metadata,
                   threadVars, shadowPages, pageIdx, totalPages, pageBuffer, hasPreserved,
                   caught, sourceVars, backupDirVars, callerVars, writerVars, historyVars, restoreVars, lockVars, connVars>>

\* BackupManager::handleBackupError: setState(BackupState::FAILED)
HandleErrorState ==
    /\ wpc = "catch_state"
    /\ state' = "FAILED"
    /\ wpc' = "cleanup"
    /\ UNCHANGED <<progress, cancelRequested, errorMessage, copiedPages, metadata,
                   threadVars, shadowPages, pageIdx, totalPages, pageBuffer, hasPreserved,
                   caught, sourceVars, backupDirVars, callerVars, writerVars, historyVars, restoreVars, lockVars, connVars>>

Worker ==
    \/ \E ioOk \in BOOLEAN : CopyOpen(ioOk)
    \/ CopyLoopCheck
    \/ CopyHasPreserved
    \/ \E ioOk \in BOOLEAN : CopyReadPage(ioOk)
    \/ \E ioOk \in BOOLEAN : CopyWritePage(ioOk)
    \/ CopyMarkCopied
    \/ CopyUpdateProgress
    \/ CopyFinish
    \/ CheckCancelAfterCopy
    \/ CancelMessage
    \/ \E wal \in {"absent", "empty", "data"}, ioOk \in BOOLEAN : copyWALFile(wal, ioOk)
    \/ CheckCancelAfterWAL
    \/ \E lock \in BOOLEAN, ioOk \in BOOLEAN : copyMetadata(lock, ioOk)
    \/ SetFinalizing
    \/ \E ioOk \in BOOLEAN, intact \in BOOLEAN : writeBackupMetadata(ioOk, intact)
    \/ \E ioOk \in BOOLEAN : verifyBackupIntegrity(ioOk)
    \/ SetCompleted
    \/ SetVerifyFailed
    \/ VerifyFailedMessage
    \/ CleanupShadow
    \/ HandleErrorMessage
    \/ HandleErrorState

\* ------------------------------------------------------ BackupShadowFile

\* A page-indexed map with one entry added or replaced.
MapPut(m, p, x) == [q \in DOMAIN m \cup {p} |-> IF q = p THEN x ELSE m[q]]

\* Mutant: the entry is stored without the "already preserved" check.
preserveOriginalPage_Overwrite(sp, p, pageData) == MapPut(sp, p, pageData)

\* BackupShadowFile::preserveOriginalPage: shadowPages after the call.
preserveOriginalPage(sp, p, pageData) ==
    IF p \in DOMAIN sp THEN sp ELSE MapPut(sp, p, pageData)

\* BackupShadowFile::getNumPreservedPages
getNumPreservedPages == Cardinality(DOMAIN shadowPages)

\* A thread calls preserveOriginalPage(p, pageData) on the shadow file; the
\* call holds BackupShadowFile::mtx throughout.
ShadowPreserve(p, pageData) ==
    /\ shadowPages' = preserveOriginalPage(shadowPages, p, pageData)
    /\ firstPreserved' =
          IF p \notin DOMAIN firstPreserved
          THEN MapPut(firstPreserved, p, [bytes |-> pageData, again |-> FALSE])
          ELSE IF pageData # firstPreserved[p].bytes
          THEN [firstPreserved EXCEPT ![p].again = TRUE]
          ELSE firstPreserved
    /\ UNCHANGED <<managerVars, threadVars, workerVars, sourceVars, backupDirVars,
                   callerVars, writerVars, snapshot, written, cancelInCopy, cleanedUp,
                   contractOK,
                   manifestAtStart, cancelAfterEnd, restoreVars, lockVars, connVars>>

\* A thread calls readPreservedPage(p, buffer): the buffer is filled, or
\* the call throws.
ShadowRead(p) ==
    /\ IF p \in DOMAIN shadowPages
       THEN /\ pageBuffer' = shadowPages[p]
            /\ caught' = MsgNone
       ELSE /\ caught' = MsgNotPreserved
            /\ UNCHANGED pageBuffer
    /\ UNCHANGED <<managerVars, threadVars, shadowPages, wpc, pageIdx, totalPages,
                   hasPreserved, sourceVars, backupDirVars, callerVars, writerVars,
                   historyVars, restoreVars, lockVars, connVars>>

\* A thread calls cleanup().
ShadowCleanup ==
    /\ shadowPages' = cleanup
    /\ firstPreserved' = << >>
    /\ UNCHANGED <<managerVars, threadVars, workerVars, sourceVars, backupDirVars,
                   callerVars, writerVars, snapshot, written, cancelInCopy, cleanedUp,
                   contractOK,
                   manifestAtStart, cancelAfterEnd, restoreVars, lockVars, connVars>>

PageData(p) == {<<p, v>> : v \in 0 .. MaxWrites}

ShadowNext ==
    \/ \E p \in Pages : \E pageData \in PageData(p) : ShadowPreserve(p, pageData)
    \/ \E p \in Pages : ShadowRead(p)
    \/ ShadowCleanup

\* The shadow file on its own, called by any number of threads.
ShadowSpec == InitWith(MaxPages, "empty") /\ InitTarget("empty") /\ [][ShadowNext]_vars

\* --------------------------------------------------------------- callers

\* BackupManager::waitForCompletion: if (backupThread && backupThread->joinable()).
\* A call made before any backupThread exists returns at once ("noop").
waitCheck(w) ==
    /\ waitPc[w] = "idle"
    /\ waitPc' = [waitPc EXCEPT ![w] = IF threadJoinable THEN "join"
                                       ELSE IF wpc = "none" THEN "noop"
                                       ELSE "returned"]
    /\ UNCHANGED <<managerVars, threadVars, shadowPages, workerVars, sourceVars,
                   backupDirVars, startResult, writerVars, historyVars, restoreVars, lockVars, connVars>>

\* BackupManager::waitForCompletion: backupThread->join() is entered.
\* std::thread::join throws std::system_error when the thread is no longer
\* joinable.  Two callers inside join() on the same std::thread object is a
\* data race on that object: the second caller either gets the
\* std::system_error raised for pthread_join's EINVAL or blocks as the
\* first one does.
JoinOutcomes == {"threw", "blocked"}

waitJoin(w) ==
    /\ waitPc[w] = "join"
    /\ IF threadJoinable /\ joiner = "none"
       THEN /\ joiner' = w
            /\ waitPc' = [waitPc EXCEPT ![w] = "blocked"]
       ELSE /\ \E outcome \in JoinOutcomes :
                   waitPc' = [waitPc EXCEPT ![w] = IF threadJoinable THEN outcome
                                                      ELSE "threw"]
            /\ UNCHANGED joiner
    /\ UNCHANGED <<managerVars, threadJoinable, shadowPages, workerVars, sourceVars,
                   backupDirVars, startResult, writerVars, historyVars, restoreVars, lockVars, connVars>>

\* BackupManager::waitForCompletion: join() returns once backupThreadFunc
\* has returned; the thread is no longer joinable.
waitJoinReturn(w) ==
    /\ waitPc[w] = "blocked"
    /\ wpc = "done"
    /\ threadJoinable' = FALSE
    /\ joiner' = "none"
    /\ waitPc' = [waitPc EXCEPT ![w] = "returned"]
    /\ UNCHANGED <<managerVars, shadowPages, workerVars, sourceVars, backupDirVars,
                   startResult, writerVars, historyVars, restoreVars, lockVars, connVars>>

waitForCompletion ==
    \/ \E w \in Waiters : waitCheck(w)
    \/ \E w \in Waiters : waitJoin(w)
    \/ \E w \in Waiters : waitJoinReturn(w)

Host ==
    \/ \E s \in Starters, createOk \in BOOLEAN : startBackup(s, createOk)
    \/ cancelBackup
    \/ \E h \in Writers, p \in Pages : notifyPageModification(h, p)
    \/ \E h \in Writers : mutatePage(h)

Next == Worker \/ Host

Spec == Init /\ [][Next]_vars

WaitNext ==
    \/ Worker
    \/ \E s \in Starters, createOk \in BOOLEAN : startBackup(s, createOk)
    \/ cancelBackup
    \/ waitForCompletion

WaitSpec == Init /\ [][WaitNext]_vars

\* Callers that repeat waitForCompletion one call after the other: a call
\* begins when no other call is inside the function.
NoOtherWaiting(w) ==
    \A v \in Waiters \ {w} : waitPc[v] \in {"idle", "noop", "returned", "threw"}

RepeatNext ==
    \/ Worker
    \/ \E s \in Starters, createOk \in BOOLEAN : startBackup(s, createOk)
    \/ cancelBackup
    \/ \E w \in Waiters : NoOtherWaiting(w) /\ waitCheck(w)
    \/ \E w \in Waiters : waitJoin(w)
    \/ \E w \in Waiters : waitJoinReturn(w)

RepeatSpec == Init /\ [][RepeatNext]_vars

\* The background thread is a running thread: it takes its next step.
FairSpec == Spec /\ WF_vars(Worker)

\* A backup of a database large enough for the periodic progress update,
\* with no host writers.
ProgressInit ==
    \E n \in (0 .. MaxPages) \cup {LargePages}, dest \in Destinations :
        InitWith(n, dest) /\ InitTarget("empty")

ProgressNext ==
    \/ Worker
    \/ \E s \in Starters, createOk \in BOOLEAN : startBackup(s, createOk)
    \/ cancelBackup

ProgressSpec == ProgressInit /\ [][ProgressNext]_vars


\* ------------------------------------------------------ restoreFromBackup

backupVars ==
    <<managerVars, threadVars, shadowPages, workerVars, sourceVars, backupDirVars,
      callerVars, writerVars, historyVars, lockVars, connVars>>

RestoreOutcomes == {"ok", "NoMetadata", "IoError", "NotFound"}
NoRestoreRunning == \A r \in Restorers : rpc[r] \in {"idle"} \cup RestoreOutcomes

\* Mutant: the manifest is not looked for.
RestoreBegin_Unchecked(r) ==
    /\ rpc[r] = "idle"
    /\ wpc \in {"none", "done"}
    /\ NoRestoreRunning
    /\ rpc' = [rpc EXCEPT ![r] = "read"]
    /\ targetBefore' = [targetBefore EXCEPT ![r] = target]
    /\ manifestBefore' = [manifestBefore EXCEPT ![r] = manifest.exists]
    /\ UNCHANGED <<backupVars, target>>

\* BackupManager::restoreFromBackup: if (!vfs->fileOrPathExists(metadataPath)) throw.
\* The call is made with no backup running and no other restore running.
RestoreBegin(r) ==
    /\ rpc[r] = "idle"
    /\ wpc \in {"none", "done"}
    /\ NoRestoreRunning
    /\ rpc' = [rpc EXCEPT ![r] = IF manifest.exists THEN "read" ELSE "NoMetadata"]
    /\ targetBefore' = [targetBefore EXCEPT ![r] = target]
    /\ manifestBefore' = [manifestBefore EXCEPT ![r] = manifest.exists]
    /\ UNCHANGED <<backupVars, target>>

\* restoreFromBackup and copyBackupToTarget: BackupMetadata::readFromFile,
\* which throws for a file that is not intact or cannot be read.
RestoreReadMetadata(r, ioOk) ==
    /\ rpc[r] = "read"
    /\ rpc' = [rpc EXCEPT ![r] = IF manifest.exists /\ manifest.readable /\ ioOk
                                   THEN "copy_data" ELSE "IoError"]
    /\ UNCHANGED <<backupVars, target, targetBefore, manifestBefore>>

\* Mutant: the last page of the source file is not written.
RestoreWrite_Short(dst, src) ==
    [exists |-> TRUE,
     pages |-> [i \in 1 .. (IF Len(dst.pages) > Len(src.pages) - 1 THEN Len(dst.pages)
                            ELSE Len(src.pages) - 1) |->
                   IF i <= Len(src.pages) - 1 THEN src.pages[i] ELSE dst.pages[i]]]

\* copyBackupToTarget: the destination file after the whole source file is
\* written at offset 0 of a file opened with WRITE | CREATE_IF_NOT_EXISTS.
RestoreWrite(dst, src) ==
    [exists |-> TRUE,
     pages |-> [i \in 1 .. (IF Len(dst.pages) > Len(src.pages) THEN Len(dst.pages)
                            ELSE Len(src.pages)) |->
                   IF i <= Len(src.pages) THEN src.pages[i] ELSE dst.pages[i]]]

\* copyBackupToTarget: the main data file, when the backup holds one.
\* Opening the destination fails when the target directory does not exist.
RestoreCopyData(r, ioOk) ==
    /\ rpc[r] = "copy_data"
    /\ IF ~dataFile.exists
       THEN /\ rpc' = [rpc EXCEPT ![r] = "copy_wal"]
            /\ UNCHANGED target
       ELSE IF target.exists /\ ioOk
       THEN /\ target' = [target EXCEPT !.data = RestoreWrite(@, dataFile)]
            /\ rpc' = [rpc EXCEPT ![r] = "copy_wal"]
       ELSE /\ rpc' = [rpc EXCEPT ![r] = "IoError"]
            /\ UNCHANGED target
    /\ UNCHANGED <<backupVars, targetBefore, manifestBefore>>

\* copyBackupToTarget: the WAL file, when the backup holds one.
RestoreCopyWal(r, ioOk) ==
    /\ rpc[r] = "copy_wal"
    /\ IF walFile = NoFile
       THEN /\ rpc' = [rpc EXCEPT ![r] = "verify"]
            /\ UNCHANGED target
       ELSE IF target.exists /\ ioOk
       THEN /\ target' = [target EXCEPT !.wal = walFile]
            /\ rpc' = [rpc EXCEPT ![r] = "verify"]
       ELSE /\ rpc' = [rpc EXCEPT ![r] = "IoError"]
            /\ UNCHANGED target
    /\ UNCHANGED <<backupVars, targetBefore, manifestBefore>>

\* BackupManager::verifyRestoreIntegrity: only the existence of the target path.
verifyRestoreIntegrity(r) ==
    /\ rpc[r] = "verify"
    /\ rpc' = [rpc EXCEPT ![r] = IF target.exists THEN "ok" ELSE "NotFound"]
    /\ UNCHANGED <<backupVars, target, targetBefore, manifestBefore>>

restoreFromBackup ==
    \/ \E r \in Restorers : RestoreBegin(r)
    \/ \E r \in Restorers, ioOk \in BOOLEAN : RestoreReadMetadata(r, ioOk)
    \/ \E r \in Restorers, ioOk \in BOOLEAN : RestoreCopyData(r, ioOk)
    \/ \E r \in Restorers, ioOk \in BOOLEAN : RestoreCopyWal(r, ioOk)
    \/ \E r \in Restorers : verifyRestoreIntegrity(r)

\* Backups and restores, the restores offline: no backup starts while a
\* restore runs.
RestoreInit ==
    \E n \in 0 .. MaxPages, dest \in Destinations, tgt \in Targets :
        InitWith(n, dest) /\ InitTarget(tgt)

RestoreNext ==
    \/ Worker
    \/ \E s \in Starters, createOk \in BOOLEAN : NoRestoreRunning /\ startBackup(s, createOk)
    \/ cancelBackup
    \/ restoreFromBackup

RestoreSpec == RestoreInit /\ [][RestoreNext]_vars


\* ------------------------------------------ the copier and a filled shadow file

\* Mutant: a host thread that finds the page preserved calls cleanup().
HostPreserve_OrCleanup(p) ==
    /\ state = "IN_PROGRESS"
    /\ p < numLive
    /\ IF hasPreservedPage(p) THEN ShadowCleanup ELSE ShadowPreserve(p, LiveBytes(p))

\* A host thread calls preserveOriginalPage on the manager's shadow file with
\* the current bytes of page p while the backup is in progress.
HostPreserve(p) ==
    /\ state = "IN_PROGRESS"
    /\ p < numLive
    /\ ShadowPreserve(p, LiveBytes(p))

\* The worker running against a shadow file that host threads fill before
\* they modify a page.
CopierNext ==
    \/ Worker
    \/ \E s \in Starters, createOk \in BOOLEAN : startBackup(s, createOk)
    \/ cancelBackup
    \/ \E p \in Pages : HostPreserve(p)
    \/ \E h \in Writers, p \in Pages : notifyPageModification(h, p)
    \/ \E h \in Writers : mutatePage(h)

CopierSpec == Init /\ [][CopierNext]_vars


\* ------------------------------------------------- a growing live data file

\* The host appends one page to the live data file: the count that
\* dataFH->getNumPages() returns grows by one.
appendPage ==
    /\ numLive < MaxPages
    /\ numLive' = numLive + 1
    /\ UNCHANGED <<managerVars, threadVars, shadowPages, workerVars, live, walFound, backupDirVars,
                   callerVars, writerVars, historyVars, restoreVars, lockVars, connVars>>

GrowNext ==
    \/ Worker
    \/ \E s \in Starters, createOk \in BOOLEAN : startBackup(s, createOk)
    \/ cancelBackup
    \/ appendPage

\* A backup of a database whose data file the host extends.
GrowSpec == Init /\ [][GrowNext]_vars


\* ------------------------------------------ DatabaseConnectorFactory and Bolt

nonConnVars ==
    <<managerVars, threadVars, shadowPages, workerVars, sourceVars, backupDirVars,
      callerVars, writerVars, historyVars, restoreVars, lockVars>>

RyuScheme == <<"r", "y", "u", ":", "/", "/">>
RyusScheme == <<"r", "y", "u", "s", ":", "/", "/">>
Npos == 0 - 1

\* t occurs in s at the 0-based index i.
OccursAt(s, t, i) == i + Len(t) <= Len(s) /\ SubSeq(s, i + 1, i + Len(t)) = t

\* std::string_view::rfind(t, pos): the last index not after pos at which t
\* occurs in s, or npos.
rfind(s, t, pos) ==
    LET found == {i \in 0 .. pos : OccursAt(s, t, i)}
    IN  IF found = {} THEN Npos ELSE CHOOSE i \in found : \A j \in found : j <= i

\* Mutant: the scheme is looked for anywhere in the path.
detectConnectionType_Anywhere(path) ==
    IF rfind(path, RyuScheme, Len(path)) # Npos \/ rfind(path, RyusScheme, Len(path)) # Npos
    THEN "BOLT" ELSE "EMBEDDED"

\* DatabaseConnectorFactory::detectConnectionType
detectConnectionType(path) ==
    IF rfind(path, RyuScheme, 0) = 0 \/ rfind(path, RyusScheme, 0) = 0
    THEN "BOLT" ELSE "EMBEDDED"

\* std::string::substr(pos)
substr(s, pos) == SubSeq(s, pos + 1, Len(s))

IsDigit(c) == c \in {"0", "1", "2", "3", "4", "5", "6", "7", "8", "9"}

\* The part ([^:]+):(\d+)/(.+) of urlRegex.
MatchHostPortDb(s) ==
    \E i \in 2 .. Len(s), j \in 1 .. Len(s) :
        /\ s[i] = ":"
        /\ \A k \in 1 .. (i - 1) : s[k] # ":"
        /\ j >= i + 2
        /\ s[j] = "/"
        /\ \A k \in (i + 1) .. (j - 1) : IsDigit(s[k])
        /\ j < Len(s)

\* std::regex_match against (?:([^:]+):([^@]+)@)?([^:]+):(\d+)/(.+)
urlRegexMatch(s) ==
    \/ MatchHostPortDb(s)
    \/ \E a \in 2 .. Len(s), b \in 1 .. Len(s) :
          /\ s[a] = ":"
          /\ \A k \in 1 .. (a - 1) : s[k] # ":"
          /\ b >= a + 2
          /\ s[b] = "@"
          /\ \A k \in (a + 1) .. (b - 1) : s[k] # "@"
          /\ MatchHostPortDb(substr(s, b))

\* BoltConnectionInfo::parseURL: the TLS flag, and whether the URL is accepted.
parseURL(url) ==
    LET tls == rfind(url, RyusScheme, 0) = 0
        urlWithoutProtocol == IF tls THEN substr(url, 7) ELSE substr(url, 6)
    IN  [useTLS |-> tls, valid |-> urlRegexMatch(urlWithoutProtocol)]

\* The paths and URLs handed to createConnector: a head followed by a tail.
PathHeads ==
    { << >>, RyuScheme, RyusScheme,
      <<"r", "y", "u", ":", "/">>, <<"r", "y", "u", "s", ":", "/">>,
      <<"r", "y", "u">>, <<"r", "y", "u", "s">>,
      <<"/", "r", "y", "u", ":", "/", "/">>, <<"x", "r", "y", "u", "s", ":", "/", "/">>,
      <<"R", "Y", "U", ":", "/", "/">>, <<"r", "y", "u", "s", "s", ":", "/", "/">>,
      <<"y", "u", ":", "/", "/">>, <<":", "m", "e", "m", "o", "r", "y", ":">>,
      <<"/", "t", "m", "p", "/">>, <<"b", "o", "l", "t", ":", "/", "/">> }

PathTails ==
    { << >>, <<"h", ":", "7", "/", "d">>, <<"u", ":", "p", "@", "h", ":", "7", "/", "d">>,
      <<"h", "/", "d">>, <<"d", "b">>, <<"h", ":", "x", "/", "d">>,
      <<"r", "y", "u", ":", "/", "/", "h", ":", "7", "/", "d">>, <<"h", ":", "7", "/">> }

Paths == {head \o tail : head \in PathHeads, tail \in PathTails}

\* DatabaseConnectorFactory::createConnector for a database that is being
\* opened: a BoltDatabaseConnector (whose constructor parses the URL and
\* throws when it is not accepted), or nullptr for an embedded path.
createConnector(path) ==
    /\ cpc = "idle"
    /\ dbPath' = path
    /\ connType' = detectConnectionType(path)
    /\ IF detectConnectionType(path) = "BOLT"
       THEN /\ useTLS' = parseURL(path).useTLS
            /\ cpc' = IF parseURL(path).valid THEN "connector" ELSE "invalid"
       ELSE /\ cpc' = "nullptr"
            /\ UNCHANGED useTLS
    /\ UNCHANGED <<boltInitialized, nonConnVars>>

\* BoltDatabaseConnector::initialize on the connector that was created.
\* connOk: whether connect() reaches the server.
initialize(connOk) ==
    /\ cpc = "connector"
    /\ boltInitialized' = TRUE
    /\ cpc' = IF connOk THEN "remote" ELSE "connect_failed"
    /\ UNCHANGED <<dbPath, connType, useTLS, nonConnVars>>

ConnNext ==
    \/ \E path \in Paths : createConnector(path)
    \/ \E connOk \in BOOLEAN : initialize(connOk)

\* Opening a database by path or URL.
ConnSpec == Init /\ [][ConnNext]_vars

\* ------------------------------------------------------ BackupManager::mtx

HostThreads == Starters \cup Writers

nonLockVars ==
    <<managerVars, threadVars, shadowPages, workerVars, sourceVars, backupDirVars,
      callerVars, writerVars, historyVars, restoreVars, connVars>>

\* Thread t has a call to make that takes the mutex: a starter that has not
\* called startBackup, a writer about to call notifyPageModification.
CallPending(t) ==
    IF t \in Starters THEN startResult[t] = "none"
    ELSE writerPc[t] = "idle" /\ writes < MaxWrites /\ numLive > 0

\* std::lock_guard<std::mutex> lock(mtx), the first statement of startBackup
\* and of notifyPageModification: the thread takes the mutex, or waits.
lockGuard(t) ==
    /\ CallPending(t)
    /\ \/ /\ lpc[t] \in {"idle", "wait"}
          /\ mtx = "free"
          /\ mtx' = t
          /\ lpc' = [lpc EXCEPT ![t] = "held"]
       \/ /\ lpc[t] = "idle"
          /\ mtx # "free"
          /\ lpc' = [lpc EXCEPT ![t] = "wait"]
          /\ UNCHANGED mtx
    /\ UNCHANGED nonLockVars

\* startBackup: fileSystem->createDir(backupPath) has been called and has
\* not returned yet; the caller holds the mutex.
createDirCall(s) ==
    /\ mtx = s
    /\ lpc[s] = "held"
    /\ startResult[s] = "none"
    /\ ~startRejected
    /\ ~dirExists
    /\ lpc' = [lpc EXCEPT ![s] = "io"]
    /\ UNCHANGED <<mtx, nonLockVars>>

\* The holder of the mutex is inside createDir on the backup directory.
InDestinationIO(t) == t \in Starters /\ lpc[t] = "io" /\ startResult[t] = "none"

\* startBackup's body, run by the thread that holds the mutex; createDir,
\* when it is called, returns or throws in this step.
lockedStartBackup(s, createOk) ==
    /\ mtx = s
    /\ lpc[s] = (IF ~startRejected /\ ~dirExists THEN "io" ELSE "held")
    /\ startBackup(s, createOk)

\* notifyPageModification's body, run by the thread that holds the mutex.
lockedNotify(h, p) ==
    /\ mtx = h
    /\ lpc[h] = "held"
    /\ notifyPageModification(h, p)

\* Mutant: the call returns without releasing the mutex.
unlock_Keeps(t) ==
    /\ mtx = t
    /\ lpc[t] # "idle"
    /\ IF t \in Starters THEN startResult[t] # "none" ELSE writerPc[t] = "notified"
    /\ lpc' = [lpc EXCEPT ![t] = "idle"]
    /\ UNCHANGED <<mtx, nonLockVars>>

\* The lock_guard's destructor when the call returns or throws.
unlock(t) ==
    /\ mtx = t
    /\ IF t \in Starters THEN startResult[t] # "none" ELSE writerPc[t] = "notified"
    /\ mtx' = "free"
    /\ lpc' = [lpc EXCEPT ![t] = "idle"]
    /\ UNCHANGED nonLockVars

\* The writer modifies its page after notifyPageModification has returned.
lockedMutatePage(h) == lpc[h] = "idle" /\ mutatePage(h)

\* copyMainDataFile takes the mutex for copiedPages.insert only.
lockedWorker == (wpc = "mark" => mtx = "free") /\ Worker

\* cancelBackup takes no mutex; it is called while no startBackup is under way.
LockNext ==
    \/ \E t \in HostThreads : lockGuard(t)
    \/ \E s \in Starters : createDirCall(s)
    \/ \E s \in Starters, createOk \in BOOLEAN : lockedStartBackup(s, createOk)
    \/ \E h \in Writers, p \in Pages : lockedNotify(h, p)
    \/ \E t \in HostThreads : unlock(t)
    \/ \E h \in Writers : lockedMutatePage(h)
    \/ mtx \notin Starters /\ cancelBackup
    \/ lockedWorker

\* The manager with the acquisition and the release of its mutex as steps.
LockSpec == Init /\ [][LockNext]_vars

\* The steps of the thread that holds the mutex.
HolderStep(t) ==
    \/ unlock(t)
    \/ t \in Starters /\ createDirCall(t)
    \/ t \in Starters /\ \E createOk \in BOOLEAN : lockedStartBackup(t, createOk)
    \/ t \in Writers /\ \E p \in Pages : lockedNotify(t, p)

\* Every thread is a running thread: the worker, a thread at the head of a
\* call that takes the mutex, and the holder of the mutex take their next
\* step.  The database has one page and the backup directory does not exist.
FairLockSpec ==
    /\ InitWith(1, "absent") /\ InitTarget("empty")
    /\ [][LockNext]_vars
    /\ WF_vars(lockedWorker)
    /\ \A t \in HostThreads : WF_vars(lockGuard(t)) /\ WF_vars(HolderStep(t))

\* The manager with callers of waitForCompletion beside every other caller.
\* The database has one page and the backup directory does not exist.
WaitAllNext == Next \/ waitForCompletion

\* Every thread is a running thread: the worker takes its next step and a
\* caller inside waitForCompletion takes the next step of the call.
FairWaitSpec ==
    /\ InitWith(1, "absent") /\ InitTarget("empty")
    /\ [][WaitAllNext]_vars
    /\ WF_vars(Worker)
    /\ \A w \in Waiters : WF_vars(waitJoin(w) \/ waitJoinReturn(w))


\* ----------------------------------------------------------------- claims

Terminal == {"COMPLETED", "FAILED"}
OkStarters == {s \in Starters : startResult[s] = "ok"}

\* C1: snapshot consistency.  When every mutation made since startBackup
\* was preceded by a notifyPageModification call made since startBackup,
\* a COMPLETED backup holds, for every page of the database at
\* startBackup, the bytes that page had at startBackup.
C1_SnapshotConsistency ==
    (state = "COMPLETED" /\ contractOK) =>
        \A i \in DOMAIN snapshot :
            /\ i + 1 <= Len(dataFile.pages)
            /\ dataFile.pages[i + 1] = snapshot[i]

\* C2: at most one backup per manager.  No two startBackup calls succeed;
\* a call made while the state is not IDLE returns AlreadyActive and leaves
\* the state, the progress and the background thread as they were; and
\* once two callers have returned, neither with a directory-creation
\* failure, exactly one of them has succeeded.
C2_RejectedStartChangesNothing ==
    \A s \in Starters :
        (startResult[s] = "none" /\ startResult'[s] # "none" /\ state # "IDLE") =>
            /\ startResult'[s] = "AlreadyActive"
            /\ state' = state
            /\ progress' = progress
            /\ wpc' = wpc
            /\ threadJoinable' = threadJoinable

C2_OneSucceeds ==
    /\ Cardinality(OkStarters) <= 1
    /\ (\A s \in Starters : startResult[s] \in {"ok", "AlreadyActive"}) =>
           Cardinality(OkStarters) = 1
    /\ (OkStarters = {}) = (wpc = "none")

ClaimedTransitions ==
    { <<"IDLE", "IN_PROGRESS">>, <<"IN_PROGRESS", "FINALIZING">>,
      <<"FINALIZING", "COMPLETED">>, <<"IN_PROGRESS", "FAILED">> }

C3_TransitionsAsClaimed ==
    [][state' # state => <<state, state'>> \in ClaimedTransitions]_vars

\* C3, amended: every change of state is one of the four claimed
\* transitions or FINALIZING -> FAILED.
C3_Transitions ==
    [][state' # state =>
          <<state, state'>> \in ClaimedTransitions \cup { <<"FINALIZING", "FAILED">> }]_vars

C3_Witness == state = "FAILED" /\ wpc = "verify_msg"

\* C4: a notifyPageModification(p) call that runs while the state is
\* IN_PROGRESS and before the copier has written p leaves a shadow entry
\* for p holding the bytes p has at the call.
C4_NotifyPreserves ==
    [][\A h \in Writers :
          (/\ writerPc[h] = "idle"
           /\ writerPc'[h] = "notified"
           /\ state = "IN_PROGRESS"
           /\ writerPage'[h] \notin written) =>
              /\ writerPage'[h] \in DOMAIN shadowPages'
              /\ shadowPages'[writerPage'[h]] = LiveBytes(writerPage'[h])]_vars

\* C5: first writer wins in the shadow file.  The entry for a page holds
\* the bytes of the first preserveOriginalPage call for it; any change of
\* the map other than cleanup adds one new page and keeps every stored
\* entry, so a later call for a stored page changes neither the bytes nor
\* the count; readPreservedPage returns the first bytes.
C5_FirstKept ==
    \A p \in DOMAIN firstPreserved :
        /\ hasPreservedPage(p)
        /\ shadowPages[p] = firstPreserved[p].bytes

C5_LaterPreserveIgnored ==
    /\ (shadowPages' # shadowPages /\ shadowPages' # cleanup) =>
           /\ \A p \in DOMAIN shadowPages :
                  p \in DOMAIN shadowPages' /\ shadowPages'[p] = shadowPages[p]
           /\ Cardinality(DOMAIN shadowPages') = getNumPreservedPages + 1
    /\ \A p \in Pages :
           (ShadowRead(p) /\ p \in DOMAIN firstPreserved) =>
               pageBuffer' = firstPreserved[p].bytes

C5_FirstWriterWins == [] C5_FirstKept /\ [][C5_LaterPreserveIgnored]_vars

C5_Witness ==
    \E p \in DOMAIN firstPreserved :
        /\ firstPreserved[p].again
        /\ pageBuffer = firstPreserved[p].bytes
        /\ getNumPreservedPages = MaxPages

C7_CleanupOnEveryExit ==
    wpc = "done" => (cleanedUp /\ getNumPreservedPages = 0)

\* C8: no waitForCompletion call made once a backup thread exists fails,
\* and one that has returned did so with the state COMPLETED or FAILED.
C8_WaitSafe ==
    \A w \in Waiters :
        /\ waitPc[w] # "threw"
        /\ waitPc[w] = "returned" => state \in Terminal

\* C9: the progress is always within [0, 1] and never decreases.
C9_InRange == ProgressLeq(ProgressZero, progress) /\ ProgressLeq(progress, <<1, 1>>)

C9_ProgressMonotone == [] C9_InRange /\ [][ProgressLeq(progress, progress')]_vars

C9_Witness ==
    /\ state = "IN_PROGRESS"
    /\ ~ProgressLeq(progress, ProgressZero)
    /\ ~ProgressIsOne(progress)
    /\ pageIdx > ProgressInterval

\* C10: progress = 1.0 only in state COMPLETED.
C10_OneOnlyWhenCompleted == ProgressIsOne(progress) => state = "COMPLETED"

\* C11: whenever the state is COMPLETED the progress is 1.0, the backup
\* of an empty database included.
C11_CompletedAtOne == state = "COMPLETED" => ProgressIsOne(progress)

\* C12: within one backup the manifest is written only once all N data
\* pages, the WAL copy and the auxiliary copy are behind the worker, and
\* after the manifest no data page, WAL byte or auxiliary file is written.
ManifestWritten == manifest.exists /\ ~manifest.stale
AfterManifest ==
    {"verify", "set_completed", "set_failed", "verify_msg", "catch", "catch_state",
     "cleanup", "done"}

C12_AllWrittenBefore ==
    ManifestWritten =>
        /\ wpc \in AfterManifest
        /\ written = 0 .. (totalPages - 1)

C12_NothingWrittenAfter ==
    /\ ManifestWritten => UNCHANGED <<dataFile, walFile, lockFile>>
    /\ manifest' # manifest => (wpc = "write_meta" /\ state = "FINALIZING")

C12_ManifestLast == [] C12_AllWrittenBefore /\ [][C12_NothingWrittenAfter]_vars

C12_Witness ==
    /\ ManifestWritten
    /\ state = "COMPLETED"
    /\ walFile = WalBytes
    /\ lockFile # NoFile
    /\ Cardinality(written) = MaxPages

\* C13: whenever the state is FAILED and the destination held no manifest
\* when startBackup was called, the backup directory holds no manifest
\* that deserializes.
C13_FailedHasNoManifest ==
    (state = "FAILED" /\ ~manifestAtStart) => ~(manifest.exists /\ manifest.readable)

\* C14: whenever the state is COMPLETED the manifest exists and
\* deserializes, its page count is the number of pages the copier wrote,
\* and the size of the backup data file is that page count times the page
\* size and is the manifest's backupSizeBytes (sizes are counted in pages).
C14_CompletedIsConsistent ==
    state = "COMPLETED" =>
        /\ manifest.exists /\ manifest.readable
        /\ manifest.numPages = Cardinality(written)
        /\ Len(dataFile.pages) = manifest.numPages
        /\ manifest.backupSizeBytes = Len(dataFile.pages)

C14_Witness ==
    /\ state = "COMPLETED"
    /\ manifestAtStart
    /\ manifest.numPages = MaxPages
    /\ written = Pages

\* C15: once a step of the background thread has raised an error, the
\* state never becomes COMPLETED, and the thread returns with the state
\* FAILED, a non-empty failure reason (the error's text), and the shadow
\* file cleaned up; the error is caught inside the thread.
ErrorRaised == caught # MsgNone

C15_Handled ==
    /\ state = "FAILED"
    /\ errorMessage # MsgNone
    /\ errorMessage = caught
    /\ cleanedUp
    /\ getNumPreservedPages = 0

C15_ErrorEndsFailed ==
    /\ [](ErrorRaised => state # "COMPLETED")
    /\ []((ErrorRaised /\ wpc = "done") => C15_Handled)
    /\ (ErrorRaised ~> (wpc = "done" /\ C15_Handled))

C15_Witness ==
    /\ ErrorRaised
    /\ wpc = "done"
    /\ C15_Handled
    /\ ManifestWritten

\* C16: a startBackup call that fails creating the destination directory
\* returns an I/O error, leaves the state IDLE, spawns no thread and
\* creates nothing; while no call has succeeded the manager still accepts
\* a start, and a call that finds the directory missing and cannot create
\* it returns the I/O error.
C16_FailedCreateStep ==
    \A s \in Starters :
        /\ (startResult[s] = "none" /\ startResult'[s] = "IoError") =>
               /\ ~dirExists
               /\ state = "IDLE" /\ state' = "IDLE"
               /\ wpc' = "none"
               /\ ~threadJoinable'
               /\ UNCHANGED backupDirVars
        /\ (startResult[s] = "none" /\ startResult'[s] # "none"
              /\ state = "IDLE" /\ ~dirExists /\ ~dirExists') =>
               startResult'[s] = "IoError"

C16_StillStartable ==
    ((\E s \in Starters : startResult[s] = "IoError") /\ OkStarters = {}) =>
        (state = "IDLE" /\ ~startRejected /\ wpc = "none")

C16_CreateDirFailure == [] C16_StillStartable /\ [][C16_FailedCreateStep]_vars

C16_Witness ==
    \E s, t \in Starters :
        /\ startResult[s] = "IoError"
        /\ startResult[t] = "ok"
        /\ state = "COMPLETED"

\* C17: a notifyPageModification call that runs while the state is not
\* IN_PROGRESS leaves the shadow file, the set of copied pages, the state,
\* the progress and the backup files unchanged.
C17_NotifyOutsideBackup ==
    [][\A h \in Writers :
          (/\ writerPc[h] = "idle"
           /\ writerPc'[h] = "notified"
           /\ state # "IN_PROGRESS") =>
              UNCHANGED <<shadowPages, copiedPages, state, progress, errorMessage,
                          backupDirVars>>]_vars

C17_Witness ==
    \E h \in Writers :
        /\ writerPc[h] = "notified"
        /\ writerState[h] = "FAILED"
        /\ writerPage[h] \notin copiedPages

\* C18: once the state is COMPLETED or FAILED a cancelBackup call leaves
\* the state, the progress, the failure reason and the backup directory
\* unchanged, and once the background thread has ended nothing changes
\* them any more; a waitForCompletion call repeated after the end (one
\* call at a time) does not fail, is not kept waiting once the thread has
\* ended, and returns with the state COMPLETED or FAILED.
C18_CancelAfterEnd ==
    /\ (state \in Terminal /\ ~cancelAfterEnd /\ cancelAfterEnd') =>
           UNCHANGED <<state, progress, errorMessage, backupDirVars, wpc>>
    /\ wpc = "done" =>
           UNCHANGED <<state, progress, errorMessage, backupDirVars, wpc>>

C18_WaitAfterEnd ==
    \A w \in Waiters :
        /\ waitPc[w] # "threw"
        /\ (waitPc[w] = "blocked" /\ wpc = "done") => ENABLED waitJoinReturn(w)
        /\ (waitPc[w] = "returned") => (state \in Terminal /\ wpc = "done")

NonEmpty(t) == t.exists /\ (t.data.exists \/ t.wal # NoFile)

C19_NonEmptyTargetRefused ==
    \A r \in Restorers :
        (rpc[r] # "idle" /\ NonEmpty(targetBefore[r])) =>
            (rpc[r] # "ok" /\ target = targetBefore[r])

\* C20: a restoreFromBackup call on a backup directory without a manifest
\* fails, and no step of it creates or changes anything under the target.
C20_Refused ==
    \A r \in Restorers :
        (rpc[r] # "idle" /\ ~manifestBefore[r]) => rpc[r] = "NoMetadata"

C20_TargetUntouched ==
    \A r \in Restorers :
        (rpc'[r] # rpc[r] /\ ~manifestBefore'[r]) =>
            (rpc'[r] = "NoMetadata" /\ target' = target)

C20_NoManifestNoRestore == [] C20_Refused /\ [][C20_TargetUntouched]_vars

C20_Witness ==
    \E r \in Restorers :
        /\ rpc[r] = "NoMetadata"
        /\ state = "FAILED"
        /\ errorMessage = MsgCancelled
        /\ dataFile.exists
        /\ target = EmptyTarget

\* C21: restoreFromBackup returns normally only when, after the copy, the
\* target data file exists and its size is the manifest's page count times
\* the page size (sizes are counted in pages); stated for calls whose
\* target was an empty directory.
C21_SuccessMeansVerified ==
    [][\A r \in Restorers :
          (rpc[r] # "ok" /\ rpc'[r] = "ok" /\ targetBefore[r] = EmptyTarget) =>
              /\ target'.data.exists
              /\ Len(target'.data.pages) = manifest.numPages]_vars

C23_LaterStartAccepted ==
    [][\A s \in Starters :
          (startResult[s] = "none" /\ startResult'[s] # "none"
             /\ state \in Terminal /\ wpc = "done") =>
              (startResult'[s] = "ok" /\ state' = "IN_PROGRESS")]_vars

\* C24: when the worker has ended a backup because it observed the
\* cancellation, the backup directory holds no data file, no WAL file and
\* no manifest; stated for backups whose worker wrote at least one page
\* into a directory that held no manifest at startBackup.
C24_CancelledLeavesNothing ==
    (wpc = "done" /\ state = "FAILED" /\ errorMessage = MsgCancelled
       /\ written # {} /\ ~manifestAtStart) =>
        (~dataFile.exists /\ walFile = NoFile /\ ~manifest.exists)

\* C26: every page index in copiedPages has already been written to the
\* backup data file by the worker of this backup.
C26_CopiedWereWritten == copiedPages \subseteq written

C28_WriteStep ==
    (written' # written \/ dataFile'.pages # dataFile.pages) =>
        /\ wpc = "write" /\ wpc' = "mark"
        /\ written = 0 .. (pageIdx - 1)
        /\ written' = 0 .. pageIdx
        /\ Len(dataFile'.pages) =
              (IF Len(dataFile.pages) > pageIdx + 1 THEN Len(dataFile.pages) ELSE pageIdx + 1)
        /\ dataFile'.pages[pageIdx + 1] = pageBuffer
        /\ \A j \in DOMAIN dataFile.pages :
              j # pageIdx + 1 => dataFile'.pages[j] = dataFile.pages[j]

C28_AllWritten == wpc = "copy_finish" => written = 0 .. (totalPages - 1)

C28_EachPageOnceInOrder == [] C28_AllWritten /\ [][C28_WriteStep]_vars

\* The copy loop of a database of MaxPages pages has run to its end.
C28_Witness ==
    /\ wpc = "copy_finish"
    /\ totalPages = MaxPages
    /\ written = 0 .. (MaxPages - 1)
    /\ dataFile.exists /\ Len(dataFile.pages) = MaxPages

\* C29: the page count the worker copies, and records in the metadata, is
\* the number of pages the live data file had when startBackup was called.
C29_CountAtStart ==
    wpc \notin {"none", "copy_open"} =>
        /\ totalPages = Cardinality(DOMAIN snapshot)
        /\ metadata.numPages = Cardinality(DOMAIN snapshot)

\* C30: as long as no notifyPageModification call has been made and no page
\* has been modified, the shadow file is empty, the worker finds no page
\* preserved and the bytes it is about to write are the live page's, and a
\* COMPLETED backup's data file is the live pages 0..N-1 in order.
NoHostWrites == writes = 0 /\ \A h \in Writers : writerPc[h] = "idle"

C30_NoConcurrentWrites ==
    NoHostWrites =>
        /\ getNumPreservedPages = 0
        /\ wpc = "read" => ~hasPreserved
        /\ wpc = "write" => pageBuffer = LiveBytes(pageIdx)
        /\ state = "COMPLETED" =>
              /\ totalPages = numLive
              /\ dataFile.pages = [i \in 1 .. numLive |-> LiveBytes(i - 1)]

\* A backup of MaxPages pages has completed with no host call made.
C30_Witness ==
    /\ NoHostWrites
    /\ state = "COMPLETED"
    /\ numLive = MaxPages
    /\ dataFile.pages = [i \in 1 .. MaxPages |-> LiveBytes(i - 1)]

\* C25: a thread that waits for the mutex at the head of
\* notifyPageModification never waits while the holder of the mutex is doing
\* I/O on the backup destination.
C25_NotifyNeverWaitsOnIO ==
    \A h \in Writers : lpc[h] = "wait" => ~(mtx \in Starters /\ InDestinationIO(mtx))

\* C31: a notifyPageModification(p) call made during the backup when p is
\* already in copiedPages changes neither the shadow file, nor copiedPages,
\* nor the backup data file; and no step creates a shadow entry for a page
\* that is in copiedPages.
C31_LateNotifyStep ==
    \A h \in Writers :
        (/\ writerPc[h] = "idle"
         /\ writerPc'[h] = "notified"
         /\ state = "IN_PROGRESS"
         /\ writerPage'[h] \in copiedPages) =>
            UNCHANGED <<shadowPages, copiedPages, dataFile>>

C31_NoLateEntry ==
    \A p \in Pages :
        (p \in copiedPages /\ p \notin DOMAIN shadowPages) => p \notin DOMAIN shadowPages'

C31_LateNotifyIsNoOp == [][C31_LateNotifyStep /\ C31_NoLateEntry]_vars

\* A notification found its page in copiedPages after the worker wrote it.
C31_Witness ==
    \E h \in Writers :
        /\ writerPc[h] = "notified"
        /\ writerState[h] = "IN_PROGRESS"
        /\ writerFound[h]
        /\ writerPage[h] \in written

\* C32: the worker enters the WAL copy, the copy of the auxiliary files, the
\* FINALIZING transition and the verification only in a step in which
\* cancelRequested is not set.
C32_CancelSeenAtBoundaries ==
    [][/\ (wpc # "wal" /\ wpc' = "wal") => ~cancelRequested
       /\ (wpc # "aux" /\ wpc' = "aux") => ~cancelRequested
       /\ (wpc = "finalizing" /\ wpc' # "finalizing") => ~cancelRequested
       /\ (wpc = "verify" /\ wpc' # "verify") => ~cancelRequested]_vars

VerifierReasons ==
    {MsgMetaMissing, MsgDataMissing, MsgSizeMismatch, MsgPageCountMismatch,
     MsgMetaUnreadable}

C35_SpecificVerifyReason ==
    (wpc = "done" /\ state = "FAILED" /\ caught = MsgNone /\ errorMessage # MsgCancelled) =>
        errorMessage \in VerifierReasons

\* C36: once createConnector has been given a path, the connection type is
\* BOLT exactly when the path begins with "ryu://" or "ryus://"; for every
\* other path no connector exists and the Bolt connector is never
\* initialized; and a connector that was created uses TLS exactly when the
\* path begins with "ryus://".
BeginsWith(path, scheme) ==
    Len(path) >= Len(scheme) /\ \A k \in 1 .. Len(scheme) : path[k] = scheme[k]

C36_BoltRouting ==
    cpc # "idle" =>
        /\ (connType = "BOLT") <=>
               (BeginsWith(dbPath, RyuScheme) \/ BeginsWith(dbPath, RyusScheme))
        /\ connType \in {"BOLT", "EMBEDDED"}
        /\ connType = "EMBEDDED" => (cpc = "nullptr" /\ ~boltInitialized)
        /\ connType = "BOLT" => (useTLS <=> BeginsWith(dbPath, RyusScheme))

\* Both schemes and an embedded path that contains a scheme further on:
\* the connector of a "ryus://" URL was initialized with TLS.
C36_Witness ==
    /\ cpc = "remote"
    /\ boltInitialized
    /\ useTLS
    /\ BeginsWith(dbPath, RyusScheme)

\* C37: whenever the state is FAILED the failure reason is not empty, and
\* it does not change any more once the state is FAILED.
C37_ReasonBeforeFailed ==
    /\ [](state = "FAILED" => errorMessage # MsgNone)
    /\ [][state = "FAILED" => errorMessage' = errorMessage]_vars

\* C38: the thread that holds the manager's mutex can always take a step
\* (it never waits for anything while it holds the mutex), every thread
\* that waits for the mutex gets it, and the worker always gets past its
\* locked insertion into copiedPages.
C38_HolderRuns == \A t \in HostThreads : mtx = t => ENABLED HolderStep(t)

C39_BackupEnds == (wpc # "none") ~> (wpc = "done" /\ state \in Terminal)

\* C39: under fair scheduling every started backup ends COMPLETED or FAILED
\* and every waitForCompletion call that found the thread joinable returns.
C39_EveryWaitReturns ==
    /\ C39_BackupEnds
    /\ \A w \in Waiters : (waitPc[w] = "join") ~> (waitPc[w] = "returned")

\* C40: once a backup has ended FAILED in a destination directory that held
\* the manifest of an earlier backup when startBackup was called, the
\* directory holds no manifest.
C40_FailedLeavesNoStaleManifest ==
    (wpc = "done" /\ state = "FAILED" /\ manifestAtStart) => ~manifest.exists

====
